---- MODULE Spec2Model ----
(***************************************************************************)
(* Model of the program-binary cache of shaders_binary.cpp:                *)
(* checkProgramBinarySupport, saveProgramBinary, loadProgramBinary,        *)
(* createShaderProgramFromSource and createOrLoadShaderProgram, run once   *)
(* per process over a cache file that survives from one process to the     *)
(* next.  The graphics driver and the file system are the environment:     *)
(* their outcomes are nondeterministic choices.                            *)
(***************************************************************************)
EXTENDS Integers, Sequences, FiniteSets, TLC

\* ------------------------------------------------------------------ bounds
\* number of successive processes (runs of main) explored
MaxRuns == 3
\* number of distinct driver builds; a binary is valid for one build only
NumDrivers == 2
\* largest count the driver reports for GL_NUM_PROGRAM_BINARY_FORMATS
MaxFormats == 1
\* number of object names the driver hands out
MaxNames == 4
\* largest buffer size (bytes) a std::vector allocation is certain to get
AllocSafe == 16

\* ------------------------------------------------- 32-bit values and bytes
\* TLC integers are the 32-bit signed integers, the range of GLsizei; format
\* tags (GLenum) are modelled for values below 2^31 only
Pow8 == 2 ^ 8
Pow24 == Pow8 * Pow8 * Pow8
MaxInt32 == (Pow24 * 127) + (Pow24 - 1)
MinInt32 == (-MaxInt32) - 1

\* the same four bytes in the opposite (big-endian) order
Enc32_BigEndian(n) ==
    LET m == IF n >= 0 THEN n ELSE (n + MaxInt32) + 1
        top == IF n >= 0 THEN 0 ELSE 128
    IN  << (m \div Pow24) + top,
           (m \div (Pow8 * Pow8)) % Pow8,
           (m \div Pow8) % Pow8,
           m % Pow8 >>

\* file.write(reinterpret_cast<const char*>(&x), sizeof(x)): the four bytes
\* of a 32-bit object in host (little-endian) order, two's complement
Enc32(n) ==
    LET m == IF n >= 0 THEN n ELSE (n + MaxInt32) + 1
        top == IF n >= 0 THEN 0 ELSE 128
    IN  << m % Pow8,
           (m \div Pow8) % Pow8,
           (m \div (Pow8 * Pow8)) % Pow8,
           (m \div Pow24) + top >>

\* file.read into a GLenum (unsigned 32-bit)
Dec32U(b) == b[1] + Pow8 * b[2] + Pow8 * Pow8 * b[3] + Pow24 * b[4]

\* file.read into a GLsizei (signed 32-bit)
Dec32S(b) ==
    IF b[4] >= 128
    THEN ((b[1] + Pow8 * b[2] + Pow8 * Pow8 * b[3] + Pow24 * (b[4] - 128)) - MaxInt32) - 1
    ELSE Dec32U(b)

Min(a, b) == IF a <= b THEN a ELSE b

Zeros(n) == [i \in 1..n |-> 0]

Count(s, e) == Cardinality({i \in 1..Len(s) : s[i] = e})

\* ------------------------------------------------------------- the driver
DriverVersions == 1..NumDrivers

\* the format tag and the payload the driver build v produces for the
\* (fixed) pair of shader sources of this program
DriverFormat(v) == 34624 + v
DriverPayload(v) == [i \in 1..(v + 1) |-> 16 * v + i]

Drivers == [ver : DriverVersions, formats : 0..MaxFormats, fnAvail : BOOLEAN]

\* glProgramBinary: the driver accepts exactly the binaries its own build
\* produced (same format tag, same bytes); anything else is rejected
DriverAccepts(d, fmt, data) ==
    /\ fmt = DriverFormat(d.ver)
    /\ data = DriverPayload(d.ver)

\* values glGetProgramiv(GL_PROGRAM_BINARY_LENGTH) may report for a linked
\* program: nothing, the exact size, or an over-estimate
ReportedLengths(d) ==
    LET L == Len(DriverPayload(d.ver)) IN {0, L, L + 1}

\* ------------------------------------------------------------ cache files
\* the header carries the reported length (the buffer size), not the actual one
FileImage_ReportedLength(fmt, actualLength, binaryData) ==
    Enc32(fmt) \o Enc32(Len(binaryData)) \o SubSeq(binaryData, 1, actualLength)

\* the bytes saveProgramBinary writes: format, actual length, payload
FileImage(fmt, actualLength, binaryData) ==
    Enc32(fmt) \o Enc32(actualLength) \o SubSeq(binaryData, 1, actualLength)

ValidImage(v) == FileImage(DriverFormat(v), Len(DriverPayload(v)), DriverPayload(v))

Absent == [exists |-> FALSE, bytes |-> << >>]
Present(b) == [exists |-> TRUE, bytes |-> b]

\* contents the cache file may have when a process starts
CacheFiles ==
    {Absent, Present(<< >>), Present(<<65, 135, 0>>),
     Present(Enc32(DriverFormat(1)) \o <<2, 0>>),
     Present(Enc32(DriverFormat(1)) \o Enc32(0)),
     Present(Enc32(DriverFormat(1)) \o Enc32(-1)),
     Present(Enc32(DriverFormat(1)) \o Enc32(2) \o <<0, 0>>),
     Present(Enc32(DriverFormat(1)) \o Enc32(MaxInt32) \o <<1>>)}
    \cup {Present(ValidImage(v)) : v \in DriverVersions}
    \cup {Present(SubSeq(ValidImage(v), 1, Len(ValidImage(v)) - 1)) : v \in DriverVersions}
    \cup {Present(ValidImage(v) \o <<9>>) : v \in DriverVersions}

\* std::vector<GLubyte> binaryData(n): a small buffer is always obtained; a
\* larger request may be refused, and the std::bad_alloc it throws is caught
\* nowhere, so the process is terminated
AllocOutcomes(n) == IF n > AllocSafe THEN {TRUE, FALSE} ELSE {TRUE}

\* values an unread (indeterminate) GLsizei may hold
UninitLengths == {MinInt32, -1, 0, 1, 2, MaxInt32}

\* ------------------------------------------------------------------ state
VARIABLES
    driver,           \* the installed driver build and what it reports
    file,             \* shader_program.bin: [exists, bytes]
    writable,         \* whether the file can be opened for writing
    objs,             \* live driver objects: [id, kind, linked]
    glError,          \* the context's error flag, cleared by glGetError
    pc,               \* position inside createOrLoadShaderProgram
    binarySupported,  \* static bool binarySupported
    ld,               \* locals of loadProgramBinary
    cs,               \* locals of createShaderProgramFromSource
    sv,               \* locals of saveProgramBinary
    program,          \* local 'program' of createOrLoadShaderProgram
    ret,              \* return values of the callees and of the call itself
    log,              \* calls and I/O of this process, in order
    entry,            \* file and live objects at the entry of the call / callee
    run,              \* index of the current process
    prev,             \* what the previous process did
    untouched,        \* file and driver unchanged since the previous process ended
    probes,           \* values checkProgramBinarySupport returned in this process
    queries           \* glGetIntegerv / glGet*iv queries of this process, in order

vars == << driver, file, writable, objs, glError, pc, binarySupported, ld, cs, sv,
           program, ret, log, entry, run, prev, untouched, probes, queries >>

NoLd == [binaryFormat |-> 0, length |-> 0, gcount |-> 0, binaryData |-> << >>, program |-> 0]
NoCs == [vertexShader |-> 0, fragmentShader |-> 0, shaderProgram |-> 0]
NoSv == [length |-> 0, actualLength |-> 0, binaryFormat |-> 0, binaryData |-> << >>]
NoRet == [load |-> 0, compile |-> 0, save |-> FALSE, result |-> 0]
NoPrev == [compiled |-> FALSE, saved |-> FALSE, binaryFormat |-> 0, payload |-> << >>]

Ids == {o.id : o \in objs}
\* glCreateShader / glCreateProgram hand out an unused non-zero name
NewName == CHOOSE n \in 1..MaxNames : n \notin Ids /\ \A m \in 1..(n - 1) : m \in Ids
Obj(h) == CHOOSE o \in objs : o.id = h
IsLive(h) == \E o \in objs : o.id = h
\* glGetProgramiv(h, GL_LINK_STATUS)
LinkStatus(h) == \E o \in objs : o.id = h /\ o.kind = "program" /\ o.linked
\* glDeleteShader / glDeleteProgram; the name 0 is silently ignored
Delete(os, h) == {o \in os : o.id # h}
Programs == {o \in objs : o.kind = "program"}
Shaders == {o \in objs : o.kind # "program"}

Init ==
    /\ driver \in Drivers
    /\ file \in CacheFiles
    /\ writable \in BOOLEAN
    /\ objs = {}
    /\ glError = "GL_NO_ERROR"
    /\ pc = "start"
    /\ binarySupported = FALSE
    /\ ld = NoLd
    /\ cs = NoCs
    /\ sv = NoSv
    /\ program = 0
    /\ ret = NoRet
    /\ log = << >>
    /\ entry = [file |-> file, load |-> {}, compile |-> {}]
    /\ run = 1
    /\ prev = NoPrev
    /\ untouched = FALSE
    /\ probes = << >>
    /\ queries = << >>

\* ------------------------------------------------ checkProgramBinarySupport
\* a missing glGetProgramBinary makes the probe report no support
checkProgramBinarySupport_RequireFunction(d) ==
    IF d.formats < 1 THEN FALSE
    ELSE IF ~d.fnAvail THEN FALSE
    ELSE TRUE

\* formats < 1 -> false; glGetProgramBinary == nullptr -> true; else true
checkProgramBinarySupport(d) ==
    IF d.formats < 1 THEN FALSE
    ELSE IF ~d.fnAvail THEN TRUE
    ELSE TRUE

\* ------------------------------------------------ createOrLoadShaderProgram
\* static bool binarySupported = checkProgramBinarySupport(); if (binarySupported)
Start ==
    /\ pc = "start"
    /\ binarySupported' = checkProgramBinarySupport(driver)
    /\ pc' = IF checkProgramBinarySupport(driver) THEN "load" ELSE "compile_vs"
    /\ entry' = [entry EXCEPT !.file = file]
    /\ probes' = Append(probes, checkProgramBinarySupport(driver))
    /\ queries' = Append(queries, "GL_NUM_PROGRAM_BINARY_FORMATS")
    /\ UNCHANGED << driver, file, writable, objs, glError, ld, cs, sv, program, ret,
                    log, run, prev, untouched >>

\* -------------------------------------------------------- loadProgramBinary
\* the three file.read calls: what length holds and how many payload bytes
\* the last read delivered, for a file of bytes b and an indeterminate
\* value u of the unread variables
ReadCache(b, u) ==
    IF Len(b) < 8
    THEN \* a read hit end of file: failbit set, later reads deliver nothing
         [binaryFormat |-> IF Len(b) >= 4 THEN Dec32U(SubSeq(b, 1, 4)) ELSE 0,
          length |-> u, gcount |-> 0, binaryData |-> << >>, hdr |-> FALSE]
    ELSE LET len == Dec32S(SubSeq(b, 5, 8))
             got == IF len <= 0 THEN 0 ELSE Min(len, Len(b) - 8)
         IN  [binaryFormat |-> Dec32U(SubSeq(b, 1, 4)),
              length |-> len, gcount |-> got,
              binaryData |-> SubSeq(b, 9, 8 + got), hdr |-> TRUE]

\* the header check rejects negative lengths only (length < 0)
loadProgramBinary_read_ZeroAccepted ==
    /\ pc = "load"
    /\ entry' = [entry EXCEPT !.load = objs]
    /\ probes' = Append(probes, checkProgramBinarySupport(driver))
    /\ queries' = Append(queries, "GL_NUM_PROGRAM_BINARY_FORMATS")
    /\ IF ~checkProgramBinarySupport(driver)
       THEN /\ log' = log \o <<"load">>
            /\ ret' = [ret EXCEPT !.load = 0]
            /\ pc' = "load_ret"
            /\ ld' = NoLd
       ELSE IF ~file.exists
       THEN /\ log' = log \o <<"load", "open_r_failed">>
            /\ ret' = [ret EXCEPT !.load = 0]
            /\ pc' = "load_ret"
            /\ ld' = NoLd
       ELSE \E u \in UninitLengths :
            LET r == ReadCache(file.bytes, u) IN
            \E allocated \in AllocOutcomes(r.length) :
            /\ ld' = [binaryFormat |-> r.binaryFormat, length |-> r.length,
                      gcount |-> IF allocated THEN r.gcount ELSE 0,
                      binaryData |-> IF allocated THEN r.binaryData ELSE << >>,
                      program |-> 0]
            /\ IF r.length < 0
               THEN /\ log' = log \o <<"load", "open_r", "read_header">>
                    /\ ret' = [ret EXCEPT !.load = 0]
                    /\ pc' = "load_ret"
               ELSE IF ~allocated
               THEN /\ log' = log \o <<"load", "open_r", "read_header", "bad_alloc">>
                    /\ ret' = ret
                    /\ pc' = "aborted"
               ELSE IF r.gcount # r.length
               THEN /\ log' = log \o <<"load", "open_r", "read_header", "read_payload">>
                    /\ ret' = [ret EXCEPT !.load = 0]
                    /\ pc' = "load_ret"
               ELSE /\ log' = log \o <<"load", "open_r", "read_header", "read_payload">>
                    /\ ret' = ret
                    /\ pc' = "load_create"
    /\ UNCHANGED << driver, file, writable, objs, glError, binarySupported, cs, sv,
                    program, run, prev, untouched >>

\* the count of bytes actually read is not compared with the length
loadProgramBinary_read_NoShortReadCheck ==
    /\ pc = "load"
    /\ entry' = [entry EXCEPT !.load = objs]
    /\ probes' = Append(probes, checkProgramBinarySupport(driver))
    /\ queries' = Append(queries, "GL_NUM_PROGRAM_BINARY_FORMATS")
    /\ IF ~checkProgramBinarySupport(driver)
       THEN /\ log' = log \o <<"load">>
            /\ ret' = [ret EXCEPT !.load = 0]
            /\ pc' = "load_ret"
            /\ ld' = NoLd
       ELSE IF ~file.exists
       THEN /\ log' = log \o <<"load", "open_r_failed">>
            /\ ret' = [ret EXCEPT !.load = 0]
            /\ pc' = "load_ret"
            /\ ld' = NoLd
       ELSE \E u \in UninitLengths :
            LET r == ReadCache(file.bytes, u) IN
            \E allocated \in AllocOutcomes(r.length) :
            /\ ld' = [binaryFormat |-> r.binaryFormat, length |-> r.length,
                      gcount |-> IF allocated THEN r.gcount ELSE 0,
                      binaryData |-> IF allocated THEN r.binaryData ELSE << >>,
                      program |-> 0]
            /\ IF r.length <= 0
               THEN /\ log' = log \o <<"load", "open_r", "read_header">>
                    /\ ret' = [ret EXCEPT !.load = 0]
                    /\ pc' = "load_ret"
               ELSE IF ~allocated
               THEN /\ log' = log \o <<"load", "open_r", "read_header", "bad_alloc">>
                    /\ ret' = ret
                    /\ pc' = "aborted"
               ELSE IF FALSE
               THEN /\ log' = log \o <<"load", "open_r", "read_header", "read_payload">>
                    /\ ret' = [ret EXCEPT !.load = 0]
                    /\ pc' = "load_ret"
               ELSE /\ log' = log \o <<"load", "open_r", "read_header", "read_payload">>
                    /\ ret' = ret
                    /\ pc' = "load_create"
    /\ UNCHANGED << driver, file, writable, objs, glError, binarySupported, cs, sv,
                    program, run, prev, untouched >>

\* lines 132-168: probe, open, read header, read payload
loadProgramBinary_read ==
    /\ pc = "load"
    /\ entry' = [entry EXCEPT !.load = objs]
    /\ probes' = Append(probes, checkProgramBinarySupport(driver))
    /\ queries' = Append(queries, "GL_NUM_PROGRAM_BINARY_FORMATS")
    /\ IF ~checkProgramBinarySupport(driver)
       THEN /\ log' = log \o <<"load">>
            /\ ret' = [ret EXCEPT !.load = 0]
            /\ pc' = "load_ret"
            /\ ld' = NoLd
       ELSE IF ~file.exists
       THEN /\ log' = log \o <<"load", "open_r_failed">>
            /\ ret' = [ret EXCEPT !.load = 0]
            /\ pc' = "load_ret"
            /\ ld' = NoLd
       ELSE \E u \in UninitLengths :
            LET r == ReadCache(file.bytes, u) IN
            \E allocated \in AllocOutcomes(r.length) :
            /\ ld' = [binaryFormat |-> r.binaryFormat, length |-> r.length,
                      gcount |-> IF allocated THEN r.gcount ELSE 0,
                      binaryData |-> IF allocated THEN r.binaryData ELSE << >>,
                      program |-> 0]
            /\ IF r.length <= 0
               THEN /\ log' = log \o <<"load", "open_r", "read_header">>
                    /\ ret' = [ret EXCEPT !.load = 0]
                    /\ pc' = "load_ret"
               ELSE IF ~allocated
               THEN /\ log' = log \o <<"load", "open_r", "read_header", "bad_alloc">>
                    /\ ret' = ret
                    /\ pc' = "aborted"
               ELSE IF r.gcount # r.length
               THEN /\ log' = log \o <<"load", "open_r", "read_header", "read_payload">>
                    /\ ret' = [ret EXCEPT !.load = 0]
                    /\ pc' = "load_ret"
               ELSE /\ log' = log \o <<"load", "open_r", "read_header", "read_payload">>
                    /\ ret' = ret
                    /\ pc' = "load_create"
    /\ UNCHANGED << driver, file, writable, objs, glError, binarySupported, cs, sv,
                    program, run, prev, untouched >>

\* line 171: GLuint program = glCreateProgram();
loadProgramBinary_create ==
    /\ pc = "load_create"
    /\ ld' = [ld EXCEPT !.program = NewName]
    /\ objs' = objs \cup {[id |-> NewName, kind |-> "program", linked |-> FALSE]}
    /\ log' = log \o <<"glCreateProgram">>
    /\ pc' = "load_submit"
    /\ UNCHANGED << probes, queries, driver, file, writable, glError, binarySupported, cs, sv, program,
                    ret, entry, run, prev, untouched >>

\* line 174: glProgramBinary(program, binaryFormat, binaryData.data(), length);
\* a rejected binary leaves the link status false, with or without an error
loadProgramBinary_submit ==
    /\ pc = "load_submit"
    /\ log' = log \o <<"glProgramBinary">>
    /\ IF DriverAccepts(driver, ld.binaryFormat, SubSeq(ld.binaryData, 1, ld.length))
       THEN /\ objs' = Delete(objs, ld.program)
                         \cup {[id |-> ld.program, kind |-> "program", linked |-> TRUE]}
            /\ glError' = glError
       ELSE /\ objs' = objs
            /\ glError' \in {glError, "GL_INVALID_ENUM", "GL_INVALID_OPERATION"}
    /\ pc' = "load_check"
    /\ UNCHANGED << probes, queries, driver, file, writable, binarySupported, ld, cs, sv, program,
                    ret, entry, run, prev, untouched >>

\* the link status of the reloaded program is not looked at
loadProgramBinary_check_NoLinkCheck ==
    /\ pc = "load_check"
    /\ glError' = "GL_NO_ERROR"
    /\ IF glError # "GL_NO_ERROR"
       THEN /\ objs' = Delete(objs, ld.program)
            /\ ret' = [ret EXCEPT !.load = 0]
       ELSE /\ objs' = objs
            /\ ret' = [ret EXCEPT !.load = ld.program]
    /\ queries' = queries
    /\ pc' = "load_ret"
    /\ UNCHANGED << probes, driver, file, writable, binarySupported, ld, cs, sv, program,
                    log, entry, run, prev, untouched >>

\* the rejected program object is not released when the link status is false
loadProgramBinary_check_NoRelease ==
    /\ pc = "load_check"
    /\ glError' = "GL_NO_ERROR"
    /\ IF glError # "GL_NO_ERROR"
       THEN /\ objs' = Delete(objs, ld.program)
            /\ ret' = [ret EXCEPT !.load = 0]
       ELSE IF ~LinkStatus(ld.program)
       THEN /\ objs' = objs
            /\ ret' = [ret EXCEPT !.load = 0]
       ELSE /\ objs' = objs
            /\ ret' = [ret EXCEPT !.load = ld.program]
    /\ queries' = IF glError # "GL_NO_ERROR" THEN queries
                  ELSE IF ~LinkStatus(ld.program)
                  THEN queries \o <<"GL_LINK_STATUS", "GL_INFO_LOG_LENGTH">>
                  ELSE Append(queries, "GL_LINK_STATUS")
    /\ pc' = "load_ret"
    /\ UNCHANGED << probes, driver, file, writable, binarySupported, ld, cs, sv, program,
                    log, entry, run, prev, untouched >>

\* lines 177-206: glGetError, link status, release on failure
loadProgramBinary_check ==
    /\ pc = "load_check"
    /\ glError' = "GL_NO_ERROR"
    /\ IF glError # "GL_NO_ERROR"
       THEN /\ objs' = Delete(objs, ld.program)
            /\ ret' = [ret EXCEPT !.load = 0]
       ELSE IF ~LinkStatus(ld.program)
       THEN /\ objs' = Delete(objs, ld.program)
            /\ ret' = [ret EXCEPT !.load = 0]
       ELSE /\ objs' = objs
            /\ ret' = [ret EXCEPT !.load = ld.program]
    /\ queries' = IF glError # "GL_NO_ERROR" THEN queries
                  ELSE IF ~LinkStatus(ld.program)
                  THEN queries \o <<"GL_LINK_STATUS", "GL_INFO_LOG_LENGTH">>
                  ELSE Append(queries, "GL_LINK_STATUS")
    /\ pc' = "load_ret"
    /\ UNCHANGED << probes, driver, file, writable, binarySupported, ld, cs, sv, program,
                    log, entry, run, prev, untouched >>

\* a loaded program does not end the call: compilation follows anyway
AfterLoad_NoEarlyReturn ==
    /\ pc = "load_ret"
    /\ program' = ret.load
    /\ ret' = ret
    /\ pc' = "compile_vs"
    /\ UNCHANGED << probes, queries, driver, file, writable, objs, glError, binarySupported, ld, cs, sv,
                    log, entry, run, prev, untouched >>

\* lines 273-280: if (program != 0) return program; else fall through
AfterLoad ==
    /\ pc = "load_ret"
    /\ program' = ret.load
    /\ IF ret.load # 0
       THEN /\ ret' = [ret EXCEPT !.result = ret.load]
            /\ pc' = "done"
       ELSE /\ ret' = ret
            /\ pc' = "compile_vs"
    /\ UNCHANGED << probes, queries, driver, file, writable, objs, glError, binarySupported, ld, cs, sv,
                    log, entry, run, prev, untouched >>

\* ---------------------------------------------- createShaderProgramFromSource
\* lines 213-226: vertex shader; a compile failure returns 0 at once
createShaderProgramFromSource_vertex ==
    /\ pc = "compile_vs"
    /\ queries' = Append(queries, "GL_COMPILE_STATUS")
    /\ entry' = [entry EXCEPT !.compile = objs]
    /\ log' = log \o <<"compile">>
    /\ \E success \in BOOLEAN :
         /\ cs' = [NoCs EXCEPT !.vertexShader = NewName]
         /\ objs' = objs \cup {[id |-> NewName, kind |-> "vertex", linked |-> FALSE]}
         /\ IF ~success
            THEN /\ ret' = [ret EXCEPT !.compile = 0]
                 /\ pc' = "compile_ret"
            ELSE /\ ret' = ret
                 /\ pc' = "compile_fs"
    /\ UNCHANGED << probes, driver, file, writable, glError, binarySupported, ld, sv, program,
                    run, prev, untouched >>

\* lines 229-241: fragment shader; a compile failure deletes the vertex shader
createShaderProgramFromSource_fragment ==
    /\ pc = "compile_fs"
    /\ queries' = Append(queries, "GL_COMPILE_STATUS")
    /\ \E success \in BOOLEAN :
         /\ cs' = [cs EXCEPT !.fragmentShader = NewName]
         /\ IF ~success
            THEN /\ objs' = Delete(objs \cup {[id |-> NewName, kind |-> "fragment",
                                               linked |-> FALSE]}, cs.vertexShader)
                 /\ ret' = [ret EXCEPT !.compile = 0]
                 /\ pc' = "compile_ret"
            ELSE /\ objs' = objs \cup {[id |-> NewName, kind |-> "fragment",
                                        linked |-> FALSE]}
                 /\ ret' = ret
                 /\ pc' = "compile_link"
    /\ UNCHANGED << probes, driver, file, writable, glError, binarySupported, ld, sv, program,
                    log, entry, run, prev, untouched >>

\* lines 244-264: create, attach, link; both shaders are deleted either way
createShaderProgramFromSource_link ==
    /\ pc = "compile_link"
    /\ queries' = Append(queries, "GL_LINK_STATUS")
    /\ \E success \in BOOLEAN :
         /\ cs' = [cs EXCEPT !.shaderProgram = NewName]
         /\ IF ~success
            THEN /\ objs' = Delete(Delete(objs, cs.vertexShader), cs.fragmentShader)
                 /\ ret' = [ret EXCEPT !.compile = 0]
            ELSE /\ objs' = Delete(Delete(objs, cs.vertexShader), cs.fragmentShader)
                              \cup {[id |-> NewName, kind |-> "program", linked |-> TRUE]}
                 /\ ret' = [ret EXCEPT !.compile = NewName]
    /\ pc' = "compile_ret"
    /\ UNCHANGED << probes, driver, file, writable, glError, binarySupported, ld, sv, program,
                    log, entry, run, prev, untouched >>

\* the save is attempted whatever the memoized capability says
AfterCompile_AlwaysSave ==
    /\ pc = "compile_ret"
    /\ program' = ret.compile
    /\ IF ret.compile = 0
       THEN /\ ret' = [ret EXCEPT !.result = 0]
            /\ pc' = "done"
       ELSE /\ ret' = ret
            /\ pc' = "save"
    /\ UNCHANGED << probes, queries, driver, file, writable, objs, glError, binarySupported, ld, cs, sv,
                    log, entry, run, prev, untouched >>

\* lines 286-300: program == 0 -> return 0; save only if binarySupported
AfterCompile ==
    /\ pc = "compile_ret"
    /\ program' = ret.compile
    /\ IF ret.compile = 0
       THEN /\ ret' = [ret EXCEPT !.result = 0]
            /\ pc' = "done"
       ELSE IF binarySupported
       THEN /\ ret' = ret
            /\ pc' = "save"
       ELSE /\ ret' = [ret EXCEPT !.result = ret.compile]
            /\ pc' = "done"
    /\ UNCHANGED << probes, queries, driver, file, writable, objs, glError, binarySupported, ld, cs, sv,
                    log, entry, run, prev, untouched >>

\* -------------------------------------------------------- saveProgramBinary
\* the capability is probed before the link status is queried
saveProgramBinary_query_ProbeFirst ==
    /\ pc = "save"
    /\ log' = log \o <<"save">>
    /\ IF program = 0
       THEN /\ sv' = NoSv
            /\ ret' = [ret EXCEPT !.save = FALSE]
            /\ pc' = "save_ret"
            /\ UNCHANGED << probes, queries >>
       ELSE IF ~checkProgramBinarySupport(driver)
       THEN /\ sv' = NoSv
            /\ ret' = [ret EXCEPT !.save = FALSE]
            /\ pc' = "save_ret"
            /\ probes' = Append(probes, FALSE)
            /\ queries' = Append(queries, "GL_NUM_PROGRAM_BINARY_FORMATS")
       ELSE IF ~LinkStatus(program)
       THEN /\ sv' = NoSv
            /\ ret' = [ret EXCEPT !.save = FALSE]
            /\ pc' = "save_ret"
            /\ probes' = Append(probes, TRUE)
            /\ queries' = queries \o <<"GL_NUM_PROGRAM_BINARY_FORMATS", "GL_LINK_STATUS">>
       ELSE \E length \in ReportedLengths(driver) :
            /\ probes' = Append(probes, TRUE)
            /\ queries' = queries \o <<"GL_NUM_PROGRAM_BINARY_FORMATS", "GL_LINK_STATUS",
                                       "GL_PROGRAM_BINARY_LENGTH">>
            /\ sv' = [NoSv EXCEPT !.length = length, !.binaryData = Zeros(length)]
            /\ IF length <= 0
               THEN /\ ret' = [ret EXCEPT !.save = FALSE]
                    /\ pc' = "save_ret"
               ELSE /\ ret' = ret
                    /\ pc' = "save_get"
    /\ UNCHANGED << driver, file, writable, objs, glError, binarySupported, ld, cs,
                    program, entry, run, prev, untouched >>

\* lines 52-80: handle, link status, capability, reported length
saveProgramBinary_query ==
    /\ pc = "save"
    /\ log' = log \o <<"save">>
    /\ IF program = 0
       THEN /\ sv' = NoSv
            /\ ret' = [ret EXCEPT !.save = FALSE]
            /\ pc' = "save_ret"
            /\ UNCHANGED << probes, queries >>
       ELSE IF ~LinkStatus(program)
       THEN /\ sv' = NoSv
            /\ ret' = [ret EXCEPT !.save = FALSE]
            /\ pc' = "save_ret"
            /\ probes' = probes
            /\ queries' = Append(queries, "GL_LINK_STATUS")
       ELSE IF ~checkProgramBinarySupport(driver)
       THEN /\ sv' = NoSv
            /\ ret' = [ret EXCEPT !.save = FALSE]
            /\ pc' = "save_ret"
            /\ probes' = Append(probes, FALSE)
            /\ queries' = queries \o <<"GL_LINK_STATUS", "GL_NUM_PROGRAM_BINARY_FORMATS">>
       ELSE \E length \in ReportedLengths(driver) :
            /\ probes' = Append(probes, TRUE)
            /\ queries' = queries \o <<"GL_LINK_STATUS", "GL_NUM_PROGRAM_BINARY_FORMATS",
                                       "GL_PROGRAM_BINARY_LENGTH">>
            /\ sv' = [NoSv EXCEPT !.length = length, !.binaryData = Zeros(length)]
            /\ IF length <= 0
               THEN /\ ret' = [ret EXCEPT !.save = FALSE]
                    /\ pc' = "save_ret"
               ELSE /\ ret' = ret
                    /\ pc' = "save_get"
    /\ UNCHANGED << driver, file, writable, objs, glError, binarySupported, ld, cs,
                    program, entry, run, prev, untouched >>

\* lines 88-105: glGetProgramBinary through the loaded function pointer, then
\* glGetError and the actual length.  A null pointer is called unchecked.
saveProgramBinary_retrieve ==
    /\ pc = "save_get"
    /\ log' = log \o <<"glGetProgramBinary">>
    /\ IF ~driver.fnAvail
       THEN /\ pc' = "aborted"
            /\ sv' = sv
            /\ ret' = ret
       ELSE \E outcome \in {"error", "empty", "ok"} :
            LET bin == DriverPayload(driver.ver)
                L == Len(bin)
            IN
            \* glGetError also reports a flag left by an earlier call
            IF outcome = "error" \/ glError # "GL_NO_ERROR"
               \/ (outcome = "ok" /\ L > sv.length)
            THEN /\ sv' = sv
                 /\ ret' = [ret EXCEPT !.save = FALSE]
                 /\ pc' = "save_ret"
            ELSE IF outcome = "empty"
            THEN /\ sv' = sv
                 /\ ret' = [ret EXCEPT !.save = FALSE]
                 /\ pc' = "save_ret"
            ELSE /\ sv' = [sv EXCEPT !.actualLength = L,
                                     !.binaryFormat = DriverFormat(driver.ver),
                                     !.binaryData = bin \o Zeros(sv.length - L)]
                 /\ ret' = ret
                 /\ pc' = "save_write"
    /\ glError' = "GL_NO_ERROR"
    /\ UNCHANGED << probes, queries, driver, file, writable, objs, binarySupported, ld, cs, program,
                    entry, run, prev, untouched >>

\* the stream state is not tested after the writes
saveProgramBinary_write_NoGoodCheck ==
    /\ pc = "save_write"
    /\ IF ~writable
       THEN /\ log' = log \o <<"open_w_failed">>
            /\ file' = file
            /\ ret' = [ret EXCEPT !.save = FALSE]
       ELSE LET image == FileImage(sv.binaryFormat, sv.actualLength, sv.binaryData) IN
            \E k \in 0..Len(image) :
            /\ log' = log \o <<"open_w">>
            /\ file' = Present(SubSeq(image, 1, k))
            /\ ret' = [ret EXCEPT !.save = TRUE]
    /\ pc' = "save_ret"
    /\ UNCHANGED << probes, queries, driver, writable, objs, glError, binarySupported, ld, cs, sv,
                    program, entry, run, prev, untouched >>

\* lines 108-128: open (truncating), three writes, close, good()
\* k is the number of bytes that reach the file before a write fails
saveProgramBinary_write ==
    /\ pc = "save_write"
    /\ IF ~writable
       THEN /\ log' = log \o <<"open_w_failed">>
            /\ file' = file
            /\ ret' = [ret EXCEPT !.save = FALSE]
       ELSE LET image == FileImage(sv.binaryFormat, sv.actualLength, sv.binaryData) IN
            \E k \in 0..Len(image) :
            /\ log' = log \o <<"open_w">>
            /\ file' = Present(SubSeq(image, 1, k))
            /\ ret' = [ret EXCEPT !.save = (k = Len(image))]
    /\ pc' = "save_ret"
    /\ UNCHANGED << probes, queries, driver, writable, objs, glError, binarySupported, ld, cs, sv,
                    program, entry, run, prev, untouched >>

\* a failed save releases the program and makes the call fail
AfterSave_PropagateFailure ==
    /\ pc = "save_ret"
    /\ ret' = [ret EXCEPT !.result = IF ret.save THEN program ELSE 0]
    /\ objs' = IF ret.save THEN objs ELSE Delete(objs, program)
    /\ pc' = "done"
    /\ UNCHANGED << probes, queries, driver, file, writable, glError, binarySupported, ld, cs, sv,
                    program, log, entry, run, prev, untouched >>

\* lines 293-302: the result of the save is only logged; return program
AfterSave ==
    /\ pc = "save_ret"
    /\ ret' = [ret EXCEPT !.result = program]
    /\ pc' = "done"
    /\ UNCHANGED << probes, queries, driver, file, writable, objs, glError, binarySupported, ld, cs, sv,
                    program, log, entry, run, prev, untouched >>

\* ------------------------------------------------------------ environment
\* the process ends (main returns, or it was aborted) and a new one starts:
\* new context, no objects, static flag not yet initialised; the file stays
Restart ==
    /\ pc \in {"done", "aborted"}
    /\ run < MaxRuns
    /\ run' = run + 1
    /\ prev' = [compiled |-> pc = "done" /\ ret.compile # 0,
                saved |-> pc = "done" /\ ret.save,
                binaryFormat |-> IF pc = "done" /\ ret.save THEN sv.binaryFormat ELSE 0,
                payload |-> IF pc = "done" /\ ret.save
                            THEN SubSeq(sv.binaryData, 1, sv.actualLength) ELSE << >>]
    /\ untouched' = TRUE
    /\ objs' = {}
    /\ glError' = "GL_NO_ERROR"
    /\ pc' = "start"
    /\ binarySupported' = FALSE
    /\ ld' = NoLd
    /\ cs' = NoCs
    /\ sv' = NoSv
    /\ program' = 0
    /\ ret' = NoRet
    /\ log' = << >>
    /\ probes' = << >>
    /\ queries' = << >>
    /\ entry' = [file |-> file, load |-> {}, compile |-> {}]
    /\ UNCHANGED << driver, file, writable >>

\* between two processes somebody replaces, truncates or removes the file
TamperFile ==
    /\ pc = "start"
    /\ run > 1
    /\ untouched
    /\ \E f \in CacheFiles : f # file /\ file' = f
    /\ untouched' = FALSE
    /\ entry' = [entry EXCEPT !.file = file']
    /\ UNCHANGED << probes, queries, driver, writable, objs, glError, pc, binarySupported, ld, cs, sv,
                    program, ret, log, run, prev >>

\* between two processes the driver is replaced by another build
DriverUpdate ==
    /\ pc = "start"
    /\ run > 1
    /\ untouched
    /\ \E d \in Drivers : d # driver /\ driver' = d
    /\ untouched' = FALSE
    /\ UNCHANGED << probes, queries, file, writable, objs, glError, pc, binarySupported, ld, cs, sv,
                    program, ret, log, entry, run, prev >>

Next ==
    \/ Start
    \/ loadProgramBinary_read
    \/ loadProgramBinary_create
    \/ loadProgramBinary_submit
    \/ loadProgramBinary_check
    \/ AfterLoad
    \/ createShaderProgramFromSource_vertex
    \/ createShaderProgramFromSource_fragment
    \/ createShaderProgramFromSource_link
    \/ AfterCompile
    \/ saveProgramBinary_query
    \/ saveProgramBinary_retrieve
    \/ saveProgramBinary_write
    \/ AfterSave
    \/ Restart
    \/ TamperFile
    \/ DriverUpdate

Spec == Init /\ [][Next]_vars

\* saveProgramBinary called on its own with any handle: 0, a program that is
\* not linked, a linked program; an error flag may be pending at the call
InitSave ==
    /\ driver \in Drivers
    /\ file \in CacheFiles
    /\ writable \in BOOLEAN
    /\ \E h \in 0..1, linked \in BOOLEAN :
         /\ program = h
         /\ objs = IF h = 0 THEN {} ELSE {[id |-> h, kind |-> "program", linked |-> linked]}
    /\ glError \in {"GL_NO_ERROR", "GL_INVALID_OPERATION"}
    /\ pc = "save"
    /\ binarySupported = checkProgramBinarySupport(driver)
    /\ ld = NoLd
    /\ cs = NoCs
    /\ sv = NoSv
    /\ ret = NoRet
    /\ log = << >>
    /\ entry = [file |-> file, load |-> {}, compile |-> {}]
    /\ run = 1
    /\ prev = NoPrev
    /\ untouched = FALSE
    /\ probes = << >>
    /\ queries = << >>

NextSave ==
    \/ saveProgramBinary_query
    \/ saveProgramBinary_retrieve
    \/ saveProgramBinary_write
    \/ AfterSave

SpecSave == InitSave /\ [][NextSave]_vars

TypeOK ==
    /\ driver \in Drivers
    /\ file.exists \in BOOLEAN
    /\ writable \in BOOLEAN
    /\ glError \in {"GL_NO_ERROR", "GL_INVALID_ENUM", "GL_INVALID_OPERATION"}
    /\ pc \in {"start", "load", "load_create", "load_submit", "load_check", "load_ret",
               "compile_vs", "compile_fs", "compile_link", "compile_ret",
               "save", "save_get", "save_write", "save_ret", "done", "aborted"}
    /\ run \in 1..MaxRuns
    /\ \A o \in objs : o.id \in 1..MaxNames
\* ------------------------------------------------------------ properties
InLog(e) == \E i \in 1..Len(log) : log[i] = e
LoadPcs == {"load", "load_create", "load_submit", "load_check", "load_ret"}
CompilePcs == {"compile_vs", "compile_fs", "compile_link", "compile_ret"}
SavePcs == {"save", "save_get", "save_write", "save_ret"}
\* the previous process compiled from source and its save returned true, and
\* neither the file nor the driver changed since
AfterGoodSave == prev.compiled /\ prev.saved /\ untouched

\* C1: after a run that compiled from source and whose saveProgramBinary
\* returned true, the next process (same driver, file untouched) stays on the
\* load path, never enters compilation or the save, never aborts, and returns
\* the non-zero handle loadProgramBinary gave it.
C1_CacheHitOnNextRun ==
    AfterGoodSave =>
        /\ pc \in {"start", "done"} \cup LoadPcs
        /\ ~InLog("compile") /\ ~InLog("save")
        /\ pc = "load_ret" => ret.load # 0
        /\ pc = "done" => ret.result # 0 /\ ret.result = ret.load /\ InLog("load")

C1_Witness ==
    /\ AfterGoodSave
    /\ pc = "done"
    /\ ret.result # 0
    /\ InLog("glProgramBinary")

\* C2: after a save that returned true, the following load (same driver, file
\* as the save left it) submits to glProgramBinary exactly the format tag and
\* exactly the payload bytes glGetProgramBinary returned during the save, and
\* returns a non-zero handle whose link status is success.
C2_RoundTrip ==
    (prev.saved /\ untouched /\ pc \in {"load_create", "load_submit", "load_check",
                                        "load_ret", "done"}) =>
        /\ ld.binaryFormat = prev.binaryFormat
        /\ ld.length = Len(prev.payload)
        /\ ld.binaryData = prev.payload
        /\ pc \in {"load_check", "load_ret", "done"} => InLog("glProgramBinary")
        /\ pc \in {"load_ret", "done"} => ret.load # 0 /\ LinkStatus(ret.load)

C2_Witness ==
    /\ prev.saved /\ untouched
    /\ pc = "load_ret"
    /\ ret.load # 0
    /\ ld.binaryData = prev.payload
    /\ Len(prev.payload) > 0

\* C3: a non-zero handle returned by createOrLoadShaderProgram, from the
\* reload path or from the compile path, names a live program object whose
\* link status is success at the moment of return.
C3_ReturnedHandleLinked ==
    (pc = "done" /\ ret.result # 0) =>
        \E o \in objs : o.id = ret.result /\ o.kind = "program" /\ o.linked

C3_Witness ==
    /\ pc = "done"
    /\ ret.result # 0
    /\ ret.result = ret.load
    /\ ~InLog("compile")

\* C4: when loadProgramBinary returns 0 the live objects are those that were
\* live at its entry, also when it had created a program object (driver error
\* or link status false after the submission); a non-zero handle it returns is
\* live and linked.
C4_LoadNoDanglingHandle ==
    pc = "load_ret" =>
        /\ ret.load = 0 => objs = entry.load
        /\ ret.load # 0 => LinkStatus(ret.load) /\ objs = entry.load \cup {Obj(ret.load)}

\* a garbage payload of the declared size was submitted and rejected without
\* a driver error: the link-status branch released the object
C4_Witness ==
    /\ pc = "load_ret"
    /\ ret.load = 0
    /\ InLog("glProgramBinary")
    /\ ld.program # 0
    /\ ld.gcount = ld.length
    /\ ~IsLive(ld.program)

\* C5: whenever createShaderProgramFromSource returns 0, every driver object
\* it allocated (vertex shader, fragment shader, program) has been released:
\* the live objects are those that were live at its entry.
C5_NoLeakOnCompileFailure ==
    (pc = "compile_ret" /\ ret.compile = 0) => objs = entry.compile

\* C6: createOrLoadShaderProgram never aborts the process, and no step calls
\* glGetProgramBinary when the probe found it unavailable.
C6_NeverAborts ==
    /\ pc # "aborted"
    /\ InLog("glGetProgramBinary") => driver.fnAvail

\* C7: when the probe returned supported = false, the call never opens the
\* cache file (no load, no save, file unchanged) and goes through
\* createShaderProgramFromSource exactly once.
C7_UnsupportedNoFileIO ==
    (pc # "start" /\ ~binarySupported) =>
        /\ \A i \in 1..Len(log) : log[i] = "compile"
        /\ file = entry.file
        /\ pc \in CompilePcs \cup {"done"}
        /\ pc # "compile_vs" => Count(log, "compile") = 1

C7_Witness ==
    /\ pc = "done"
    /\ ~binarySupported
    /\ file.exists
    /\ ret.result # 0

\* C8: when compilation succeeded with handle h the call returns exactly h
\* whatever saveProgramBinary returned, and the save leaves h live and linked.
C8_BestEffortWrite ==
    /\ (pc \in SavePcs \cup {"done"} /\ ret.compile # 0) => LinkStatus(ret.compile)
    /\ (pc = "done" /\ ret.compile # 0) => ret.result = ret.compile

\* the destination could not be opened for writing
C8_Witness ==
    /\ pc = "done"
    /\ ret.compile # 0
    /\ InLog("open_w_failed")
    /\ ~ret.save
    /\ ret.result = ret.compile

\* the length field of a file with a complete header
HeaderLength(f) == Dec32S(SubSeq(f.bytes, 5, 8))
Parseable(f) == f.exists /\ Len(f.bytes) >= 8

\* C9 (as stated): with no cache file at the start, compilation is invoked
\* exactly once and, when it succeeds, the file exists afterwards with a
\* parseable header whose length equals the retrieved binary length.
C9_Original ==
    (pc = "done" /\ ~entry.file.exists) =>
        /\ Count(log, "compile") = 1
        /\ ret.compile # 0 =>
             /\ Parseable(file)
             /\ sv.actualLength > 0
             /\ HeaderLength(file) = sv.actualLength

\* C9 (amended): with no cache file at the start, compilation is invoked
\* exactly once and, when it succeeds and saveProgramBinary returns true, the
\* file exists afterwards with a parseable header whose length equals the
\* retrieved binary length.
C9_FallbackCorrectness ==
    (pc = "done" /\ ~entry.file.exists) =>
        /\ Count(log, "compile") = 1
        /\ (ret.compile # 0 /\ ret.save) =>
             /\ Parseable(file)
             /\ sv.actualLength > 0
             /\ HeaderLength(file) = sv.actualLength

C9_Witness ==
    /\ pc = "done"
    /\ ~entry.file.exists
    /\ ret.compile # 0
    /\ ret.save
    /\ sv.length # sv.actualLength
    /\ Parseable(file)

\* C10: with the capability present the load is attempted before any
\* compilation; a non-zero handle from the load is returned at once, with no
\* compilation, no save and the file unchanged; compilation happens only
\* after the load returned 0.
C10_LoadedIsTerminal ==
    (pc # "start" /\ binarySupported) =>
        /\ pc # "load" => Len(log) > 0 /\ log[1] = "load"
        /\ ret.load # 0 =>
             /\ pc \in {"load_ret", "done"}
             /\ ~InLog("compile") /\ ~InLog("save")
             /\ file = entry.file
             /\ pc = "done" => ret.result = ret.load
        /\ InLog("compile") => ret.load = 0 /\ InLog("load")

C10_Witness ==
    /\ pc = "done"
    /\ binarySupported
    /\ ret.load # 0
    /\ ret.result = ret.load
    /\ log = <<"load", "open_r", "read_header", "read_payload",
               "glCreateProgram", "glProgramBinary">>
\* the header is complete and declares more payload bytes than the file holds
Truncated(f) == Parseable(f) /\ HeaderLength(f) > Len(f.bytes) - 8
\* the header is complete and declares no payload
ZeroLength(f) == Parseable(f) /\ HeaderLength(f) <= 0
\* the file ends inside the 8-byte header
ShortHeader(f) == f.exists /\ Len(f.bytes) < 8
\* loadProgramBinary has been called and nothing after it has started
LoadOnly == InLog("load") /\ ~InLog("compile")

\* C11: for every cache file whose header declares a length greater than the
\* number of payload bytes remaining, loadProgramBinary returns 0, and does so
\* before creating a program object or submitting bytes to the driver.
C11_TruncatedRejected ==
    (Truncated(entry.file) /\ LoadOnly) =>
        /\ pc \in {"load_ret", "compile_vs"}
        /\ ret.load = 0
        /\ ~InLog("glCreateProgram") /\ ~InLog("glProgramBinary")

\* C12: for every cache file whose header declares length <= 0,
\* loadProgramBinary returns 0 before any read of payload bytes and before any
\* program object is created.
C12_ZeroLengthRejected ==
    (ZeroLength(entry.file) /\ InLog("load")) =>
        /\ ret.load = 0
        /\ ~InLog("read_payload") /\ ~InLog("bad_alloc")
        /\ ~InLog("glCreateProgram") /\ ~InLog("glProgramBinary")
        /\ LoadOnly => pc \in {"load_ret", "compile_vs"}

C12_Witness ==
    /\ pc = "load_ret"
    /\ ZeroLength(entry.file)
    /\ ld.length = 0
    /\ ret.load = 0
    /\ log = <<"load", "open_r", "read_header">>

\* C13: whenever saveProgramBinary returns true the file consists of exactly
\* the format tag the retrieval returned, the actual length the retrieval
\* returned (not the reported length), and exactly that many payload bytes,
\* with length > 0 and nothing else.
C13_SavedFileLayout ==
    (pc = "save_ret" /\ ret.save) =>
        /\ file.exists
        /\ Len(file.bytes) = 8 + Len(DriverPayload(driver.ver))
        /\ Dec32U(SubSeq(file.bytes, 1, 4)) = DriverFormat(driver.ver)
        /\ Dec32S(SubSeq(file.bytes, 5, 8)) = sv.actualLength
        /\ sv.actualLength = Len(DriverPayload(driver.ver))
        /\ sv.actualLength > 0
        /\ SubSeq(file.bytes, 9, Len(file.bytes)) = DriverPayload(driver.ver)

\* the reported length was an over-estimate of the actual one
C13_Witness ==
    /\ pc = "save_ret"
    /\ ret.save
    /\ sv.length > sv.actualLength
    /\ HeaderLength(file) = sv.actualLength

\* C14: every probe of one process returns the same value, that value is
\* false exactly when the reported format count is below 1, and the step that
\* consists of the probe alone changes no file, driver object or error flag.
C14_ProbeIdempotent ==
    /\ [](\A i \in 1..Len(probes) : probes[i] = (driver.formats >= 1))
    /\ [](\A i, j \in 1..Len(probes) : probes[i] = probes[j])
    /\ [][(pc = "start" /\ pc' # "start") =>
            (file' = file /\ objs' = objs /\ glError' = glError /\ driver' = driver)]_vars

\* three probes in one process: the memoized one, the load's and the save's,
\* with the retrieval function missing
C14_Witness ==
    /\ Len(probes) = 3
    /\ probes[1] /\ probes[3]
    /\ ~driver.fnAvail

\* C15: createOrLoadShaderProgram returns 0 if and only if the load was
\* skipped or returned 0 and createShaderProgramFromSource returned 0.
C15_ZeroIffCompileFailed ==
    pc = "done" =>
        (ret.result = 0 <=> (ret.load = 0 /\ InLog("compile") /\ ret.compile = 0))

\* a rejected cache and a failed save, and still a non-zero result
C15_Witness ==
    /\ pc = "done"
    /\ ret.result # 0
    /\ InLog("glProgramBinary")
    /\ InLog("save")
    /\ ~ret.save

\* C16: at most one program object is live at any point of a call; none is
\* live when compilation starts; on return the only live program object is
\* the one returned.
C16_OneLiveProgram ==
    /\ Cardinality(Programs) <= 1
    /\ pc = "compile_vs" => Programs = {}
    /\ (pc = "done" /\ ret.result = 0) => Programs = {}
    /\ (pc = "done" /\ ret.result # 0) => Programs = {Obj(ret.result)}

\* the load created a program object, failed, and compilation made a new one
C16_Witness ==
    /\ pc = "compile_ret"
    /\ ret.compile # 0
    /\ InLog("glProgramBinary")
    /\ ld.program # 0
    /\ Cardinality(Programs) = 1

\* the artifact invariant: length > 0 and payload.size == length
ArtifactOK(f) ==
    ~f.exists \/ (Parseable(f) /\ HeaderLength(f) > 0
                  /\ Len(f.bytes) - 8 = HeaderLength(f))

\* C17: starting from an absent cache file or one satisfying the artifact
\* invariant, after a saveProgramBinary call, successful or failed, a file
\* that exists satisfies length > 0 and payload.size == length.
C17_ArtifactInvariant ==
    ArtifactOK(entry.file) => ArtifactOK(file)

IsPrefix(a, b) == Len(a) <= Len(b) /\ SubSeq(b, 1, Len(a)) = a
SaveQueryOrder == <<"GL_LINK_STATUS", "GL_NUM_PROGRAM_BINARY_FORMATS",
                    "GL_PROGRAM_BINARY_LENGTH">>
Opened == InLog("open_w") \/ InLog("open_w_failed")
FailedCheck ==
    \/ program = 0
    \/ ~LinkStatus(program)
    \/ driver.formats < 1
    \/ sv.length <= 0
    \/ sv.actualLength = 0

\* C18: saveProgramBinary checks handle, link status, capability, reported
\* length, driver error and actual length in this order; a zero handle is
\* rejected before any driver query; when a check fails the call returns false
\* and the destination file has not been opened, created or truncated.
C18_SaveCheckOrder ==
    pc # "save" =>
        /\ IsPrefix(queries, SaveQueryOrder)
        /\ program = 0 => queries = << >> /\ probes = << >>
        /\ (program # 0 /\ ~LinkStatus(program)) =>
              queries = <<"GL_LINK_STATUS">> /\ probes = << >>
        /\ (LinkStatus(program) /\ driver.formats < 1) =>
              Len(queries) = 2 /\ probes = <<FALSE>>
        /\ InLog("glGetProgramBinary") => Len(queries) = 3 /\ sv.length > 0
        /\ Opened => InLog("glGetProgramBinary") /\ sv.actualLength > 0
        /\ (pc \in {"save_ret", "done"} /\ FailedCheck) =>
              ~ret.save /\ ~Opened /\ file = entry.file

\* a program that is not linked on a driver without formats: only the link
\* status was queried, and the existing file is as it was
C18_Witness ==
    /\ pc = "save_ret"
    /\ program # 0
    /\ ~LinkStatus(program)
    /\ driver.formats < 1
    /\ file.exists
    /\ queries = <<"GL_LINK_STATUS">>

\* C19: for every cache file shorter than the 8-byte header, loadProgramBinary
\* returns 0 without creating a program object or submitting anything to the
\* driver, whatever value the unread length variable holds.
C19_ShortHeaderRejected ==
    (ShortHeader(entry.file) /\ LoadOnly) =>
        /\ pc \in {"load_ret", "compile_vs"}
        /\ ret.load = 0
        /\ ~InLog("glCreateProgram") /\ ~InLog("glProgramBinary")
====
